---- MODULE Spec2Model ----
(***************************************************************************)
(* State-machine model of the Soren plugin SDK (pysdk): the job progress   *)
(* reporter (Plugin.progress), the plugin registrar (Plugin.start and the  *)
(* subscription callbacks it binds) and the transport session             *)
(* (SorenSDK.connect / close).                                             *)
(*                                                                         *)
(* Python values are modelled as follows: None is the string "None"; an    *)
(* exception is the name of its class; a text value is a TLA+ string and   *)
(* f-string formatting is string concatenation.                            *)
(***************************************************************************)
EXTENDS Integers, Sequences, FiniteSets, TLC

None == "None"

(***************************************************************************)
(* Subject registry (sorenv.py).                                           *)
(***************************************************************************)
make_subject(plugin_id, action) == "soren.v2." \o plugin_id \o "." \o action

make_settings_subject(plugin_id) == "soren.v2." \o plugin_id \o ".@settings"

make_actions_list_subject(plugin_id) == "soren.v2." \o plugin_id \o ".@actions"

make_intro_subject(plugin_id) == "soren.v2." \o plugin_id \o ".@intro"

make_action_cpu_no_method(plugin_id, action) == "soren.cpu." \o plugin_id

make_action_cpu(plugin_id, action) == "soren.cpu." \o plugin_id \o "." \o action

make_job_subject(plugin_id, job_id, job_update) ==
    "soren.cpu." \o plugin_id \o "." \o job_id \o "." \o job_update

make_form_subject(plugin_id, action) ==
    "soren.v2." \o plugin_id \o "." \o action \o ".@form"

\* Config.plugin_id of the modelled plugin instance.
PluginIds == {"abc"}

(***************************************************************************)
(* Job progress reporter: Plugin.progress (plugin.py).                     *)
(***************************************************************************)
VARIABLES
    plugin_id,   \* sdk.config.plugin_id
    p_pc,        \* where the progress() call is: idle, request, flush, sleep, returned, raised
    p_attempt,   \* the loop variable `attempt`
    p_sub,       \* the job subject `sub`
    p_msg,       \* data of the response `msg`, None while there is none
    p_trace,     \* what the call did so far, in order: request, flush, delay, warning, error, info
    p_outcomes,  \* outcome of every completed request of the call, in order
    p_ret,       \* how the call ended: [kind |-> "return" | "raise", value |-> ...]
    intro,       \* Plugin.intro
    settings,    \* Plugin.settings
    actions,     \* the list object Plugin.actions refers to
    subs,        \* the subscriptions bound on the connection, in bind order
    s_pc,        \* where start() is: idle, subscribing, returned, raised
    s_pending,   \* the subscribe call start() is suspended in
    s_loop,      \* the iterator of `for action in self.actions`
    s_attempted, \* the subscribe calls the current start() call has made, in order
    s_starts,    \* number of start() calls made
    s_err,       \* the exception start() raised, None when there is none
    s_dirty,     \* a declaration was changed while the current start() was suspended
    s_decl,      \* the declarations held when start() last returned
    n_decl,      \* number of calls of set_intro, set_settings, set_actions, add_actions
    a_log,       \* the calls of set_actions and add_actions made so far, in order
    last,        \* the dispatch of the callback that is running, NoDispatch when none is
    conn,        \* SorenSDK.conn: 0 for None, else the connection it refers to
    conns,       \* the transport connections created so far: "open" or "closed"
    closed,      \* SorenSDK._closed
    c_pc,        \* for each caller, where its connect() or close() call is
    c_target,    \* for each caller in close(), the connection being closed
    c_ret,       \* for each caller, how its last connect() or close() ended
    n_connects,  \* number of underlying nats.connect calls made
    c_log,       \* for each caller, the calls it made so far, in order: connect, close
    c_tries,     \* for each caller, the nats.connect calls its last connect() made
    n_closes,    \* for each transport connection, the close() calls made on it
    e_channel,   \* sdk.config.event_channel
    e_auth,      \* sdk.config.auth_key
    e_pc,        \* where the event logger call is: idle, request, returned, raised
    e_op,        \* the event logger method that was called
    e_reqs,      \* the requests the current event logger call issued, in order
    e_warn,      \* the warnings the current event logger call printed, in order
    e_ret,       \* how the event logger call ended
    e_calls,     \* number of event logger calls made
    q_exec,      \* the make_action_cpu calls made so far: [method, subject], in order
    q_form       \* the make_form_subject calls made so far: [method, subject], in order

progressVars == <<p_pc, p_attempt, p_sub, p_msg, p_trace, p_outcomes, p_ret>>

\* What the progress reporter leaves alone.
registrarVars ==
    <<intro, settings, actions, subs, s_pc, s_pending, s_loop, s_attempted,
      s_starts, s_err, s_dirty, s_decl, n_decl, a_log, last>>

sessionVars ==
    <<conn, conns, closed, c_pc, c_target, c_ret, n_connects, c_log, c_tries,
      n_closes>>

eventVars == <<e_channel, e_auth, e_pc, e_op, e_reqs, e_warn, e_ret, e_calls>>

\* What the progress reporter leaves alone.
subjectVars == <<q_exec, q_form>>

notProgress == <<plugin_id, registrarVars, sessionVars, eventVars, subjectVars>>

\* Command (models/types.py)
Commands == {"progress", "stop", "context/current", "context/path"}

JobIds == {"j1", "j2"}

\* JobProgress.details: absent, an empty mapping, a mapping, a mapping that
\* json.dumps cannot serialise.
DetailsValues == {None, "empty", "dict", "unserializable"}

\* msg.data of a response: empty, decodable text, bytes that are not UTF-8.
ResponseData == {"empty", "text", "undecodable"}

\* How `await self.sdk.conn.request(...)` can fail.
RequestErrors == {"NoRespondersError", "TimeoutError", "ConnectionClosedError"}

\* How `await self.sdk.conn.flush()` can fail.
FlushErrors == {"FlushTimeoutError", "ConnectionClosedError"}

\* Classes derived from Exception among the errors of the model.
ExceptionClasses ==
    RequestErrors \cup FlushErrors \cup {"UnicodeDecodeError", "TypeError"}

MaxRetries == 3

NoReturn == [kind |-> "none", value |-> None]

Count(seq, e) == Cardinality({i \in 1..Len(seq) : seq[i] = e})

\* The except clause of progress() that handles exc.
ExceptClauseAllNats(exc) ==
    IF exc \in RequestErrors THEN "no_responders"
    ELSE IF exc \in ExceptionClasses THEN "exception" ELSE "propagate"

ExceptClauseTimeoutToo(exc) ==
    IF exc \in {"NoRespondersError", "TimeoutError"} THEN "no_responders"
    ELSE IF exc \in ExceptionClasses THEN "exception" ELSE "propagate"

ExceptClauseNoGeneric(exc) ==
    IF exc = "NoRespondersError" THEN "no_responders" ELSE "propagate"

ExceptClause(exc) ==
    IF exc = "NoRespondersError" THEN "no_responders"
    ELSE IF exc \in ExceptionClasses THEN "exception" ELSE "propagate"

\* `if attempt < max_retries - 1`
ShouldRetryOffByOne(attempt) == attempt <= MaxRetries - 1

ShouldRetry(attempt) == attempt < MaxRetries - 1

ShouldWarnAlways(attempt) == attempt >= 0

\* `if attempt >= 1`
ShouldWarn(attempt) == attempt >= 1

\* progress() up to its first await: the subject and the body are built, the
\* loop is entered and the first request is issued.  json.dumps is outside
\* the try block, so a body that cannot be serialised raises to the caller.
ProgressCall(job_id, command, details) ==
    /\ p_pc \in {"idle", "returned", "raised"}
    /\ p_sub' = make_job_subject(plugin_id, job_id, command)
    /\ p_attempt' = 0
    /\ p_msg' = None
    /\ p_outcomes' = <<>>
    /\ IF details = "unserializable"
       THEN /\ p_pc' = "raised"
            /\ p_trace' = <<>>
            /\ p_ret' = [kind |-> "raise", value |-> "TypeError"]
       ELSE /\ p_pc' = "request"
            /\ p_trace' = <<"request">>
            /\ p_ret' = NoReturn
    /\ UNCHANGED notProgress

\* An exception exc raised inside the try block, after `done` was appended
\* to the trace.
Handle(exc, done) ==
    LET clause == ExceptClause(exc) IN
    /\ p_msg' = p_msg
    /\ IF clause = "no_responders"
       THEN IF ShouldRetry(p_attempt)
            THEN /\ p_trace' = done
                        \o (IF ShouldWarn(p_attempt) THEN <<"warning">> ELSE <<>>)
                        \o <<"delay">>
                 /\ p_pc' = "sleep"
                 /\ p_ret' = p_ret
            ELSE /\ p_trace' = done \o <<"error">>
                 /\ p_pc' = "returned"
                 /\ p_ret' = [kind |-> "return", value |-> exc]
       ELSE IF clause = "exception"
       THEN /\ p_trace' = done \o <<"error">>
            /\ p_pc' = "returned"
            /\ p_ret' = [kind |-> "return", value |-> exc]
       ELSE /\ p_trace' = done
            /\ p_pc' = "raised"
            /\ p_ret' = [kind |-> "raise", value |-> exc]

\* The awaited request completes with a response: flush() is called.
RequestResponds(data) ==
    /\ p_pc = "request"
    /\ p_outcomes' = Append(p_outcomes, "response")
    /\ p_msg' = data
    /\ p_trace' = Append(p_trace, "flush")
    /\ p_pc' = "flush"
    /\ UNCHANGED <<p_attempt, p_sub, p_ret, notProgress>>

\* The awaited request fails with exc.
RequestFails(exc) ==
    /\ p_pc = "request"
    /\ p_outcomes' = Append(p_outcomes, exc)
    /\ Handle(exc, p_trace)
    /\ UNCHANGED <<p_attempt, p_sub, notProgress>>

\* flush() completes: the response is logged (decoding its data) and returned.
FlushDone ==
    /\ p_pc = "flush"
    /\ IF p_msg = "undecodable"
       THEN Handle("UnicodeDecodeError", p_trace)
       ELSE /\ p_trace' = Append(p_trace, "info")
            /\ p_pc' = "returned"
            /\ p_ret' = [kind |-> "return", value |-> "msg"]
            /\ p_msg' = p_msg
    /\ UNCHANGED <<p_attempt, p_sub, p_outcomes, notProgress>>

\* flush() fails with exc.
FlushFails(exc) ==
    /\ p_pc = "flush"
    /\ Handle(exc, p_trace)
    /\ UNCHANGED <<p_attempt, p_sub, p_outcomes, notProgress>>

SleepDoneRestarts ==
    /\ p_pc = "sleep"
    /\ p_attempt' = 0
    /\ p_trace' = <<"request">>
    /\ p_outcomes' = <<>>
    /\ p_pc' = "request"
    /\ UNCHANGED <<p_sub, p_msg, p_ret, notProgress>>

\* asyncio.sleep(1) elapses; `continue` takes the next value of
\* range(max_retries), or leaves the loop when there is none and the function
\* ends without a return statement.
SleepDone ==
    /\ p_pc = "sleep"
    /\ IF p_attempt + 1 < MaxRetries
       THEN /\ p_attempt' = p_attempt + 1
            /\ p_trace' = Append(p_trace, "request")
            /\ p_pc' = "request"
            /\ p_ret' = p_ret
       ELSE /\ p_attempt' = p_attempt
            /\ p_trace' = p_trace
            /\ p_pc' = "returned"
            /\ p_ret' = [kind |-> "return", value |-> None]
    /\ UNCHANGED <<p_sub, p_msg, p_outcomes, notProgress>>

ProgressInit ==
    /\ p_pc = "idle"
    /\ p_attempt = 0
    /\ p_sub = ""
    /\ p_msg = None
    /\ p_trace = <<>>
    /\ p_outcomes = <<>>
    /\ p_ret = NoReturn

NextProgress ==
    \/ \E j \in JobIds, c \in Commands, d \in DetailsValues : ProgressCall(j, c, d)
    \/ \E data \in ResponseData : RequestResponds(data)
    \/ \E exc \in RequestErrors : RequestFails(exc)
    \/ FlushDone
    \/ \E exc \in FlushErrors : FlushFails(exc)
    \/ SleepDone

(***************************************************************************)
(* Data model (models/models.py).  An Optional field is a record with a    *)
(* `present` flag, or the string None where the value is a string; a       *)
(* handler is None, "sync" (a plain callable) or "async" (a coroutine      *)
(* function).  jsonui and jsonschema are opaque values passed through.     *)
(***************************************************************************)
Handlers == {None, "sync", "async"}

NoRequirements ==
    [present |-> FALSE, reply_to |-> "", jsonui |-> "", jsonschema |-> "",
     handler |-> None]

Requirements(reply_to, handler) ==
    [present |-> TRUE, reply_to |-> reply_to, jsonui |-> "req-ui",
     jsonschema |-> "req-schema", handler |-> handler]

NoIntro ==
    [present |-> FALSE, name |-> "", author |-> "", version |-> "",
     requirements |-> NoRequirements]

PluginIntro(name, requirements) ==
    [present |-> TRUE, name |-> name, author |-> "Soren Team",
     version |-> "1.1.1", requirements |-> requirements]

NoSettings ==
    [present |-> FALSE, jsonui |-> "", jsonschema |-> "", reply_to |-> "",
     data |-> None, handler |-> None]

Settings(reply_to, data, handler) ==
    [present |-> TRUE, jsonui |-> "set-ui", jsonschema |-> "set-schema",
     reply_to |-> reply_to, data |-> data, handler |-> handler]

Icon(ref, icon) == [ref |-> ref, icon |-> icon]

NoForm == [present |-> FALSE, jsonui |-> "", jsonschema |-> ""]

ActionFormBuilder(jsonui, jsonschema) ==
    [present |-> TRUE, jsonui |-> jsonui, jsonschema |-> jsonschema]

Action(method, title, form, request_handler) ==
    [method |-> method, title |-> title, description |-> "",
     icon |-> Icon("", ""), form |-> form, request_handler |-> request_handler]

\* The captured action of a subscription that has none.
NoAction == Action("", "", NoForm, None)

\* The declarations the embedding application passes to the registrar.
\* Arguments <<intro, handler>> of set_intro.
IntroCalls ==
    { <<PluginIntro("n1", NoRequirements), None>>,
      <<PluginIntro("n2", Requirements("req", None)), None>>,
      <<PluginIntro("n1", Requirements("", None)), "sync">>,
      <<PluginIntro("n2", Requirements("req", "sync")), None>>,
      <<PluginIntro("n2", Requirements("req", None)), "async">> }

\* reply_to of a Settings built without one: the default of the dataclass.
ReplyToUnset == "_settings.config.submit"

\* Arguments <<settings, handler>> of set_settings.
SettingsCalls ==
    { <<Settings(ReplyToUnset, None, None), None>>,
      <<Settings("", "blob", None), "async">>,
      <<Settings("cfg", "empty", "sync"), None>>,
      <<Settings(None, "blob", None), "sync">> }

PrepareAction ==
    Action("prepare", "Clone", ActionFormBuilder("prep-ui", "prep-schema"), "async")

ScanAction == Action("scan.gen.graph", "Scan", NoForm, None)

OtherAction == Action("prepare", "Other", NoForm, "sync")

MaxActions == 2

\* Arguments of set_actions.
SetActionsCalls ==
    {l \in { <<>>, <<PrepareAction>>, <<ScanAction, PrepareAction>>,
             <<PrepareAction, OtherAction>> } : Len(l) <= MaxActions}

\* Arguments of add_actions.
AddActionsCalls == { <<ScanAction>>, <<OtherAction>> }

(***************************************************************************)
(* Values a handler returns, and how a callback encodes them.  A payload   *)
(* is the sequence of the tokens of its text.                              *)
(***************************************************************************)
PyNone == [type |-> "NoneType", s |-> ""]

EmptyDict == [type |-> "dict", s |-> ""]

StatusDict == [type |-> "dict", s |-> "accepted"]

Text == [type |-> "str", s |-> "ok"]

Zero == [type |-> "int", s |-> "0"]

Coroutine == [type |-> "coroutine", s |-> ""]

\* What a handler's computation can produce.
ResultValues == {PyNone, EmptyDict, StatusDict, Text, Zero}

\* The handler's computation raises instead of producing a value.
HandlerRaises == [type |-> "exception", s |-> "ValueError"]

HandlerOutcomes == ResultValues \cup {HandlerRaises}

\* Python truth value of v (`if result:`).
Truthy(v) ==
    CASE v.type = "NoneType" -> FALSE
      [] v.type = "dict" -> v.s # ""
      [] v.type = "str" -> v.s # ""
      [] v.type = "int" -> v.s # "0"
      [] OTHER -> TRUE

RECURSIVE JsonMembers(_)
JsonMembers(pairs) ==
    IF pairs = <<>> THEN <<>>
    ELSE <<pairs[1][1], ":">> \o pairs[1][2]
         \o (IF Len(pairs) > 1 THEN <<",">> ELSE <<>>)
         \o JsonMembers(Tail(pairs))

\* json.dumps of a mapping given as a sequence of <<key, tokens of value>>.
JsonObject(pairs) == <<"{">> \o JsonMembers(pairs) \o <<"}">>

RECURSIVE JsonItems(_)
JsonItems(items) ==
    IF items = <<>> THEN <<>>
    ELSE items[1] \o (IF Len(items) > 1 THEN <<",">> ELSE <<>>)
         \o JsonItems(Tail(items))

\* json.dumps of a list given as a sequence of the tokens of its items.
JsonArray(items) == <<"[">> \o JsonItems(items) \o <<"]">>

JsonString(s) == <<s>>

\* `json.dumps(result).encode() if isinstance(result, dict) else str(result).encode()`
EncodeResult(v) ==
    IF v.type = "dict"
    THEN (IF v.s = "" THEN JsonObject(<<>>)
          ELSE JsonObject(<< <<"status", JsonString(v.s)>> >>))
    ELSE IF v.type = "NoneType" THEN <<"None">>
    ELSE <<v.s>>

\* b'{"status":"not implemented"}'
NotImplemented == JsonObject(<< <<"status", JsonString("not implemented")>> >>)

\* intro_callback: the intro reply.
IntroJson(i) ==
    JsonObject(
        << <<"name", JsonString(i.name)>>,
           <<"author", JsonString(i.author)>>,
           <<"version", JsonString(i.version)>> >>
        \o (IF i.requirements.present
            THEN << <<"requirements",
                      JsonObject(
                          << <<"replyTo", JsonString(i.requirements.reply_to)>>,
                             <<"jsonui", JsonString(i.requirements.jsonui)>>,
                             <<"jsonschema", JsonString(i.requirements.jsonschema)>> >>)>> >>
            ELSE <<>>))

DefaultReplyToOther == "_settings.submit"

DefaultReplyTo == "_settings.config.submit"

\* `self.settings.reply_to if self.settings.reply_to else "_settings.config.submit"`
SettingsReplyTo(st) ==
    IF st.reply_to \notin {None, ""} THEN st.reply_to ELSE DefaultReplyTo

\* settings_callback: the settings-show reply.
SettingsJson(st) ==
    IF ~st.present THEN <<"null">>
    ELSE JsonObject(
        << <<"replyTo", JsonString(SettingsReplyTo(st))>>,
           <<"jsonui", JsonString(st.jsonui)>>,
           <<"jsonschema", JsonString(st.jsonschema)>> >>
        \o (IF st.data = "blob" THEN << <<"data", JsonString(st.data)>> >> ELSE <<>>))

ActionJson(a) ==
    JsonObject(
        << <<"method", JsonString(a.method)>>,
           <<"title", JsonString(a.title)>>,
           <<"description", JsonString(a.description)>>,
           <<"icon", JsonObject(<< <<"ref", JsonString(a.icon.ref)>>,
                                   <<"icon", JsonString(a.icon.icon)>> >>)>> >>)

ListJsonLastFirst(acts) ==
    JsonArray([k \in 1..Len(acts) |-> ActionJson(acts[Len(acts) + 1 - k])])

\* list_callback: the actions-list reply.
ListJson(acts) == JsonArray([k \in 1..Len(acts) |-> ActionJson(acts[k])])

\* form_callback: the form reply of the captured action.
FormJson(a) ==
    IF ~a.form.present THEN JsonObject(<<>>)
    ELSE JsonObject(<< <<"jsonui", JsonString(a.form.jsonui)>>,
                       <<"jsonschema", JsonString(a.form.jsonschema)>> >>)

(***************************************************************************)
(* Plugin registrar: the setters, start() and the callbacks (plugin.py).   *)
(***************************************************************************)
MaxStarts == 1

MaxDeclCalls == 2

\* Indexes of the subscriptions that the start() calls of the model can bind.
SubIndexes == 1..(MaxStarts * (5 + 2 * MaxActions))

\* How `await self.sdk.conn.subscribe(...)` can fail.
SubscribeErrors == {"ConnectionClosedError"}

\* A subscription: subject, protocol role, and the action captured by the
\* callback's default argument `act=action` (form and cpu roles).
Sub(subject, role, act) == [subject |-> subject, role |-> role, act |-> act]

NoPending == Sub("", "none", NoAction)

NoLoop == [active |-> FALSE, list |-> <<>>, idx |-> 0, aliased |-> FALSE]

\* No callback is running.
NoDispatch ==
    [role |-> "none", subject |-> "", handler |-> "n/a", result |-> PyNone,
     replies |-> <<>>, raised |-> None, running |-> FALSE, act |-> NoAction,
     calls |-> 0, outcome |-> PyNone]

Declarations == <<intro, settings, actions>>

\* start() suspended in the subscribe call `sub`, with loop iterator `loop`.
Await(sub, loop) == [pc |-> "subscribing", pending |-> sub, loop |-> loop]

\* start() has run to its end.
Return == [pc |-> "returned", pending |-> NoPending, loop |-> NoLoop]

LoopNextLateBinding(loop) ==
    IF loop.idx < Len(loop.list)
    THEN Await(Sub(make_form_subject(plugin_id, loop.list[loop.idx + 1].method),
                   "form", loop.list[Len(loop.list)]),
               [loop EXCEPT !.idx = loop.idx + 1])
    ELSE Return

\* The next iteration of `for action in self.actions`: the iterator reads the
\* list object it was created on, at its current length.
LoopNext(loop) ==
    IF loop.idx < Len(loop.list)
    THEN Await(Sub(make_form_subject(plugin_id, loop.list[loop.idx + 1].method),
                   "form", loop.list[loop.idx + 1]),
               [loop EXCEPT !.idx = loop.idx + 1])
    ELSE Return

\* actions_handler up to its first subscribe.
ListBind == Await(Sub(make_actions_list_subject(plugin_id), "list", NoAction), NoLoop)

\* settings_handler up to its first subscribe.
SettingsBind == Await(Sub(make_settings_subject(plugin_id), "settings", NoAction), NoLoop)

\* intro_handler up to its first subscribe; without an intro it returns at
\* once and start() goes on with settings_handler.
IntroBindAlways ==
    Await(Sub(make_intro_subject(plugin_id), "intro", NoAction), NoLoop)

IntroBind ==
    IF ~intro.present THEN SettingsBind
    ELSE Await(Sub(make_intro_subject(plugin_id), "intro", NoAction), NoLoop)

\* What start() does after the subscribe of role `role` has completed, up
\* to its next subscribe.
AfterBind(role) ==
    CASE role = "intro" ->
            IF intro.requirements.present /\ intro.requirements.reply_to \notin {None, ""}
            THEN Await(Sub(make_subject(plugin_id, intro.requirements.reply_to),
                           "requirements", NoAction), NoLoop)
            ELSE SettingsBind
      [] role = "requirements" -> SettingsBind
      [] role = "settings" ->
            IF settings.present
            THEN Await(Sub(make_subject(plugin_id, SettingsReplyTo(settings)),
                           "submit", NoAction), NoLoop)
            ELSE ListBind
      [] role = "submit" -> ListBind
      [] role = "list" ->
            LoopNext([active |-> TRUE, list |-> actions, idx |-> 0, aliased |-> TRUE])
      [] role = "form" ->
            Await(Sub(make_action_cpu(plugin_id, s_pending.act.method), "cpu",
                      s_pending.act), s_loop)
      [] role = "cpu" -> LoopNext(s_loop)

\* What the registrar leaves alone.
notRegistrar == <<plugin_id, progressVars, sessionVars, eventVars, subjectVars>>

startVars == <<s_pc, s_pending, s_attempted, s_starts, s_err, s_decl>>

\* A call of set_actions ("set") or add_actions ("add") with the list acts,
\* made before or after the first call of start().
DeclCall(op, acts) == [op |-> op, acts |-> acts, before_start |-> s_starts = 0]

set_intro(i, handler) ==
    /\ last = NoDispatch
    /\ n_decl < MaxDeclCalls
    /\ n_decl' = n_decl + 1
    /\ a_log' = a_log
    /\ intro' = IF i.requirements.present /\ handler # None
                THEN [i EXCEPT !.requirements.handler = handler]
                ELSE i
    /\ s_dirty' = (s_dirty \/ s_pc = "subscribing")
    /\ UNCHANGED <<settings, actions, subs, s_loop, startVars, last, notRegistrar>>

set_settings(st, handler) ==
    /\ last = NoDispatch
    /\ n_decl < MaxDeclCalls
    /\ n_decl' = n_decl + 1
    /\ a_log' = a_log
    /\ settings' = IF handler # None THEN [st EXCEPT !.handler = handler] ELSE st
    /\ s_dirty' = (s_dirty \/ s_pc = "subscribing")
    /\ UNCHANGED <<intro, actions, subs, s_loop, startVars, last, notRegistrar>>

\* self.actions = actions: a running loop of start() keeps the old list.
set_actions(acts) ==
    /\ last = NoDispatch
    /\ n_decl < MaxDeclCalls
    /\ n_decl' = n_decl + 1
    /\ a_log' = Append(a_log, DeclCall("set", acts))
    /\ actions' = acts
    /\ s_loop' = IF s_loop.active THEN [s_loop EXCEPT !.aliased = FALSE] ELSE s_loop
    /\ s_dirty' = (s_dirty \/ s_pc = "subscribing")
    /\ UNCHANGED <<intro, settings, subs, startVars, last, notRegistrar>>

\* self.actions.extend(actions): the list object is changed in place, also
\* under a running loop of start() that iterates over it.
add_actions(acts) ==
    /\ last = NoDispatch
    /\ n_decl < MaxDeclCalls
    /\ n_decl' = n_decl + 1
    /\ a_log' = Append(a_log, DeclCall("add", acts))
    /\ Len(actions) + Len(acts) <= MaxActions
    /\ actions' = actions \o acts
    /\ s_loop' = IF s_loop.active /\ s_loop.aliased
                 THEN [s_loop EXCEPT !.list = s_loop.list \o acts]
                 ELSE s_loop
    /\ s_dirty' = (s_dirty \/ s_pc = "subscribing")
    /\ UNCHANGED <<intro, settings, subs, startVars, last, notRegistrar>>

\* start() is called and runs up to its first subscribe.
StartCall ==
    /\ last = NoDispatch
    /\ s_pc # "subscribing"
    /\ s_starts < MaxStarts
    /\ s_starts' = s_starts + 1
    /\ s_pc' = IntroBind.pc
    /\ s_pending' = IntroBind.pending
    /\ s_loop' = IntroBind.loop
    /\ s_attempted' = <<IntroBind.pending>>
    /\ s_err' = None
    /\ s_dirty' = FALSE
    /\ UNCHANGED <<intro, settings, actions, subs, s_decl, n_decl, a_log, last, notRegistrar>>

\* The awaited subscribe completes: the subscription is bound and start()
\* runs up to its next subscribe, or to its end.
SubscribeOk ==
    /\ last = NoDispatch
    /\ s_pc = "subscribing"
    /\ subs' = Append(subs, s_pending)
    /\ LET n == AfterBind(s_pending.role) IN
        /\ s_pc' = n.pc
        /\ s_pending' = n.pending
        /\ s_loop' = n.loop
        /\ s_attempted' = IF n.pc = "subscribing"
                          THEN Append(s_attempted, n.pending)
                          ELSE s_attempted
        /\ s_decl' = IF n.pc = "returned" THEN Declarations ELSE s_decl
    /\ UNCHANGED <<intro, settings, actions, s_starts, s_err, s_dirty, n_decl, a_log, last, notRegistrar>>

\* The awaited subscribe fails: the exception leaves start().
SubscribeFails(exc) ==
    /\ last = NoDispatch
    /\ s_pc = "subscribing"
    /\ s_pc' = "raised"
    /\ s_err' = exc
    /\ s_pending' = NoPending
    /\ s_loop' = NoLoop
    /\ UNCHANGED <<intro, settings, actions, subs, s_attempted, s_starts, s_dirty,
                   s_decl, n_decl, a_log, last, notRegistrar>>

\* What a callback sends when the role has no handler.
NoHandlerRepliesAll(role) == <<NotImplemented>>

NoHandlerReplies(role) ==
    IF role \in {"requirements", "submit"} THEN <<NotImplemented>> ELSE <<>>

FirstResultAwaited(handler, result) == result

\* `result = handler(msg)`: the value of a plain callable, a coroutine object
\* for a coroutine function.
FirstResult(handler, result) == IF handler = "async" THEN Coroutine ELSE result

OnHandlerErrorReplies(exc) == [replies |-> <<NotImplemented>>, raised |-> None]

\* The handler raises exc, at the call (plain callable) or at the await
\* (coroutine): the callbacks have no try block, so exc leaves the callback
\* before any respond.
OnHandlerError(exc) == [replies |-> <<>>, raised |-> exc]

\* req_callback, submit_callback, request_callback: `result = handler(msg)`
\* is the value of a plain callable and a coroutine object for a coroutine
\* function; `if result:` is tested before the coroutine is awaited.
HandlerOut(handler, result, role) ==
    IF handler # None
    THEN IF result.type = "exception"
         THEN [handler |-> handler, calls |-> 1] @@ OnHandlerError(result.s)
         ELSE LET first == FirstResult(handler, result) IN
              [handler |-> handler,
               replies |-> IF Truthy(first)
                           THEN <<EncodeResult(IF first.type = "coroutine"
                                               THEN result ELSE first)>>
                           ELSE <<>>,
               raised |-> None, calls |-> 1]
    ELSE [handler |-> None, replies |-> NoHandlerReplies(role), raised |-> None,
          calls |-> 0]

\* A callback that reads no handler.
Replies(payload) ==
    [handler |-> "n/a", replies |-> <<payload>>, raised |-> None, calls |-> 0]

\* The callback of subscription sub, for a message whose handler (if one is
\* invoked) produces `result`.  The intro, settings and list callbacks read
\* the declarations of the plugin when the message arrives.
Callback(sub, result) ==
    CASE sub.role = "intro" -> Replies(IntroJson(intro))
      [] sub.role = "requirements" ->
            IF ~intro.requirements.present
            THEN [handler |-> "n/a", replies |-> <<>>, raised |-> "AttributeError",
                  calls |-> 0]
            ELSE HandlerOut(intro.requirements.handler, result, sub.role)
      [] sub.role = "settings" -> Replies(SettingsJson(settings))
      [] sub.role = "submit" -> HandlerOut(settings.handler, result, sub.role)
      [] sub.role = "list" -> Replies(ListJson(actions))
      [] sub.role = "form" -> Replies(FormJson(sub.act))
      [] sub.role = "cpu" -> HandlerOut(sub.act.request_handler, result, sub.role)

\* The transport delivers a message to subscription k and its callback runs.
\* A callback makes all its reads of the plugin before its first await, so
\* it is taken as one step, and the next step of the plugin is taken after
\* the callback has ended (DispatchDone).
Dispatch(k, result) ==
    /\ last = NoDispatch
    /\ k \in 1..Len(subs)
    /\ LET out == Callback(subs[k], result) IN
        /\ out.handler \notin {"sync", "async"} => result = PyNone
        /\ last' = [role |-> subs[k].role, subject |-> subs[k].subject,
                    handler |-> out.handler,
                    result |-> IF result.type = "exception" THEN PyNone ELSE result,
                    replies |-> out.replies, raised |-> out.raised,
                    running |-> (s_pc = "returned"), act |-> subs[k].act,
                    calls |-> out.calls, outcome |-> result]
    /\ UNCHANGED <<intro, settings, actions, subs, s_loop, s_dirty, n_decl, a_log, startVars,
                   notRegistrar>>

\* The callback has sent its replies and ends.
DispatchDone ==
    /\ last # NoDispatch
    /\ last' = NoDispatch
    /\ UNCHANGED <<intro, settings, actions, subs, s_loop, s_dirty, n_decl, a_log, startVars,
                   notRegistrar>>

RegistrarInit ==
    /\ intro = NoIntro
    /\ settings = NoSettings
    /\ actions = <<>>
    /\ subs = <<>>
    /\ s_pc = "idle"
    /\ s_pending = NoPending
    /\ s_loop = NoLoop
    /\ s_attempted = <<>>
    /\ s_starts = 0
    /\ s_err = None
    /\ s_dirty = FALSE
    /\ s_decl = <<NoIntro, NoSettings, <<>> >>
    /\ n_decl = 0
    /\ a_log = <<>>
    /\ last = NoDispatch

(***************************************************************************)
(* Transport session: SorenSDK.connect and SorenSDK.close (sorenv.py).     *)
(***************************************************************************)
\* The tasks of the application that call connect() and close().
Callers == {1, 2}

MaxConnects == 3

\* Calls of connect() and close() one caller makes.
MaxCalls == 3

\* How the awaited nats.connect can fail: asyncio.wait_for times out, or
\* the transport raises.
ConnectErrors == {"TimeoutError", "OSError"}

NoResult == [kind |-> "none", conn |-> 0, error |-> None]

\* What the session leaves alone.
notSession == <<plugin_id, progressVars, registrarVars, eventVars, subjectVars>>

NeedsConnectAlways == TRUE

\* `self.conn is None or self.conn.is_closed`
NeedsConnect == conn = 0 \/ conns[conn] = "closed"

NeedsCloseAnyHandle == conn # 0

\* `self.conn and not self.conn.is_closed`
NeedsClose == conn # 0 /\ conns[conn] # "closed"

ConnectRaisesAsIs(exc) == exc

\* The except clauses of connect(): what is raised for exc.
ConnectRaises(exc) ==
    IF exc = "TimeoutError" THEN "ConnectionError"
    ELSE IF exc \in ConnectErrors THEN "ConnectionError" ELSE exc

\* connect() is called: with a usable connection it returns it at once,
\* else it calls nats.connect and is suspended in it.
ConnectCall(t) ==
    /\ c_pc[t] = "idle"
    /\ Len(c_log[t]) < MaxCalls
    /\ c_log' = [c_log EXCEPT ![t] = Append(@, "connect")]
    /\ IF NeedsConnect
       THEN /\ n_connects < MaxConnects
            /\ n_connects' = n_connects + 1
            /\ c_tries' = [c_tries EXCEPT ![t] = 1]
            /\ c_pc' = [c_pc EXCEPT ![t] = "connecting"]
            /\ c_ret' = [c_ret EXCEPT ![t] = NoResult]
       ELSE /\ c_ret' = [c_ret EXCEPT ![t] = [kind |-> "return", conn |-> conn, error |-> None]]
            /\ c_tries' = [c_tries EXCEPT ![t] = 0]
            /\ UNCHANGED <<n_connects, c_pc>>
    /\ UNCHANGED <<conn, conns, closed, c_target, n_closes, notSession>>

\* The awaited nats.connect returns a new connection, which is assigned to
\* self.conn and returned.
ConnectDone(t) ==
    /\ c_pc[t] = "connecting"
    /\ conns' = Append(conns, "open")
    /\ n_closes' = Append(n_closes, 0)
    /\ conn' = Len(conns) + 1
    /\ c_pc' = [c_pc EXCEPT ![t] = "idle"]
    /\ c_ret' = [c_ret EXCEPT ![t] = [kind |-> "return", conn |-> Len(conns) + 1, error |-> None]]
    /\ UNCHANGED <<closed, c_target, n_connects, c_log, c_tries, notSession>>

\* The awaited nats.connect fails or times out: ConnectionError is raised
\* and self.conn is not assigned.
ConnectFails(t, exc) ==
    /\ c_pc[t] = "connecting"
    /\ c_pc' = [c_pc EXCEPT ![t] = "idle"]
    /\ c_ret' = [c_ret EXCEPT ![t] = [kind |-> "raise", conn |-> 0, error |-> ConnectRaises(exc)]]
    /\ UNCHANGED <<conn, conns, closed, c_target, n_connects, c_log, c_tries,
                   n_closes, notSession>>

\* close() is called: with a live connection it calls its close() and is
\* suspended in it, else it sets _closed and returns.
CloseCall(t) ==
    /\ c_pc[t] = "idle"
    /\ Len(c_log[t]) < MaxCalls
    /\ c_log' = [c_log EXCEPT ![t] = Append(@, "close")]
    /\ IF NeedsClose
       THEN /\ c_pc' = [c_pc EXCEPT ![t] = "closing"]
            /\ c_target' = [c_target EXCEPT ![t] = conn]
            /\ n_closes' = [n_closes EXCEPT ![conn] = @ + 1]
            /\ c_ret' = [c_ret EXCEPT ![t] = NoResult]
            /\ UNCHANGED closed
       ELSE /\ closed' = TRUE
            /\ c_ret' = [c_ret EXCEPT ![t] = [kind |-> "return", conn |-> 0, error |-> None]]
            /\ UNCHANGED <<c_pc, c_target, n_closes>>
    /\ UNCHANGED <<conn, conns, n_connects, c_tries, notSession>>

\* The awaited close() of the connection completes.
CloseDone(t) ==
    /\ c_pc[t] = "closing"
    /\ conns' = [conns EXCEPT ![c_target[t]] = "closed"]
    /\ closed' = TRUE
    /\ c_pc' = [c_pc EXCEPT ![t] = "idle"]
    /\ c_target' = [c_target EXCEPT ![t] = 0]
    /\ c_ret' = [c_ret EXCEPT ![t] = [kind |-> "return", conn |-> 0, error |-> None]]
    /\ UNCHANGED <<conn, n_connects, c_log, c_tries, n_closes, notSession>>

\* The transport closes connection k by itself (the server is gone for good).
TransportCloses(k) ==
    /\ k \in 1..Len(conns)
    /\ conns[k] = "open"
    /\ conns' = [conns EXCEPT ![k] = "closed"]
    /\ UNCHANGED <<conn, closed, c_pc, c_target, c_ret, n_connects, c_log, c_tries,
                   n_closes, notSession>>

SessionInit ==
    /\ conn = 0
    /\ conns = <<>>
    /\ closed = FALSE
    /\ c_pc = [t \in Callers |-> "idle"]
    /\ c_target = [t \in Callers |-> 0]
    /\ c_ret = [t \in Callers |-> NoResult]
    /\ n_connects = 0
    /\ c_log = [t \in Callers |-> <<>>]
    /\ c_tries = [t \in Callers |-> 0]
    /\ n_closes = <<>>

(***************************************************************************)
(* Subject registry as used by its callers: the subjects make_action_cpu   *)
(* and make_form_subject return for the methods they are given.            *)
(***************************************************************************)
MaxSubjectCalls == 2

\* Config.plugin_id values of the registry, with and without dots.
SubjectPluginIds == {"abc", "a.b"}

\* Action.method values, with and without dots, one a prefix of another.
Methods == {"prepare", "scan", "scan.gen", "scan.gen.graph", "prepare.@form", ""}

\* What the subject registry leaves alone.
notSubjects == <<plugin_id, progressVars, registrarVars, sessionVars, eventVars>>

\* make_action_cpu(method) is called.
ExecuteSubject(method) ==
    /\ Len(q_exec) < MaxSubjectCalls
    /\ q_exec' = Append(q_exec, [method |-> method,
                                 subject |-> make_action_cpu(plugin_id, method)])
    /\ UNCHANGED <<q_form, notSubjects>>

\* make_form_subject(method) is called.
FormSubject(method) ==
    /\ Len(q_form) < MaxSubjectCalls
    /\ q_form' = Append(q_form, [method |-> method,
                                 subject |-> make_form_subject(plugin_id, method)])
    /\ UNCHANGED <<q_exec, notSubjects>>

SubjectInit ==
    /\ q_exec = <<>>
    /\ q_form = <<>>

(***************************************************************************)
(* Event logger: EventLogger.log, emit_event, send_event and               *)
(* send_multiple_events (events.py).                                       *)
(***************************************************************************)

MaxEvents == 2

MaxEventCalls == 2

\* What the event logger leaves alone.
notEvents == <<plugin_id, progressVars, registrarVars, sessionVars, subjectVars>>

\* Config.__init__: `event_channel or os.getenv("SOREN_EVENT_CHANNEL")`
ChannelArgs == {None, "", "events"}

ChannelEnv == {None, "", "soren.events"}

AuthKeys == {None, "", "secret"}

ConfigOr(arg, env) == IF arg # None /\ arg # "" THEN arg ELSE env

ChannelConfiguredNotNone(channel) == channel # None

\* `if not self.sdk.config.event_channel: return`
ChannelConfigured(channel) == channel # None /\ channel # ""

\* LogLevel (models/types.py)
LogLevels == {"info", "error"}

\* PluginEvent (models/models.py); details as in DetailsValues.
PluginEvent(event, level, source, message, details) ==
    [event |-> event, level |-> level, source |-> source, message |-> message,
     timestamp |-> "now", details |-> details]

\* The events handed to send_event and send_multiple_events by the plugin.
Events ==
    {PluginEvent("log", "info", "src", "m", d) : d \in DetailsValues}

EventLists ==
    {<<>>} \cup {<<e>> : e \in Events}
           \cup {<<e1, e2>> : e1 \in Events, e2 \in {PluginEvent("log", "info", "src", "m", None)}}

\* event_dict: details is a key only when event.details is truthy.
EventDict(e) ==
    [event |-> e.event, level |-> e.level, source |-> e.source,
     message |-> e.message, timestamp |-> e.timestamp,
     details |-> IF e.details \in {None, "empty"} THEN "absent" ELSE e.details]

\* The list json.dumps is given.
EventsBody(events) == [i \in 1..Len(events) |-> EventDict(events[i])]

\* json.dumps raises TypeError on a value it cannot serialise.
Serializable(body) == \A i \in 1..Len(body) : body[i].details # "unserializable"

\* f"{event_channel}.{plugin_id}.log"
EventSubject(channel, id) == channel \o "." \o id \o ".log"

\* `headers if headers else None`, with Authorization set when auth_key is truthy.
EventHeaders(auth) ==
    IF auth # None /\ auth # "" THEN [Authorization |-> auth] ELSE [Authorization |-> None]

EventRequest(body) ==
    [subject |-> EventSubject(e_channel, plugin_id), body |-> body, timeout |-> 3,
     headers |-> EventHeaders(e_auth)]

\* Responses to the event request: resp.data empty, bytes that are not
\* UTF-8, text that is not JSON, a JSON object with or without a result, and
\* JSON values that are not objects.
EventResponses ==
    {[data |-> "empty", json |-> "n/a", result |-> None],
     [data |-> "undecodable", json |-> "n/a", result |-> None],
     [data |-> "text", json |-> "invalid", result |-> None],
     [data |-> "text", json |-> "object", result |-> "OK"],
     [data |-> "text", json |-> "object", result |-> "ERROR"],
     [data |-> "text", json |-> "object", result |-> None],
     [data |-> "text", json |-> "array", result |-> None],
     [data |-> "text", json |-> "null", result |-> None]}

\* What `json.loads(resp.data.decode())` followed by `response.get("result")`
\* raises, None when it raises nothing.
ResponseRaises(resp) ==
    IF resp.data = "undecodable" THEN "UnicodeDecodeError"
    ELSE IF resp.json = "invalid" THEN "JSONDecodeError"
    ELSE IF resp.json # "object" THEN "AttributeError"
    ELSE None

\* Classes derived from Exception among the errors of the event logger.
EventExceptionClasses ==
    RequestErrors \cup {"UnicodeDecodeError", "JSONDecodeError", "AttributeError"}

EventExceptTransportOnly(exc) ==
    IF exc = "JSONDecodeError" THEN "pass"
    ELSE IF exc \in RequestErrors THEN "warn" ELSE "propagate"

\* The except clause that handles exc raised while the response is read:
\* `except json.JSONDecodeError: pass` inside `except Exception`.
EventExcept(exc) ==
    IF exc = "JSONDecodeError" THEN "pass"
    ELSE IF exc \in EventExceptionClasses THEN "warn" ELSE "propagate"

NoEventReturn == [kind |-> "none", value |-> None]

EventReturn == [kind |-> "return", value |-> None]

\* An exception exc reaches the except clauses of the call.
EventHandle(exc) ==
    LET clause == EventExcept(exc) IN
    IF clause = "pass"
    THEN /\ e_pc' = "returned"
         /\ e_warn' = e_warn
         /\ e_ret' = EventReturn
    ELSE IF clause = "warn"
    THEN /\ e_pc' = "returned"
         /\ e_warn' = Append(e_warn, "failed")
         /\ e_ret' = EventReturn
    ELSE /\ e_pc' = "raised"
         /\ e_warn' = e_warn
         /\ e_ret' = [kind |-> "raise", value |-> exc]

\* send_event / send_multiple_events up to the awaited request: return when
\* no channel is configured; else build the body (outside the try block)
\* and, inside it, issue the request on self.sdk.conn.
SendEvents(events) ==
    /\ e_pc # "request"
    /\ e_calls < MaxEventCalls
    /\ e_calls' = e_calls + 1
    /\ IF ~ChannelConfigured(e_channel)
       THEN /\ e_pc' = "returned"
            /\ e_reqs' = <<>>
            /\ e_warn' = <<>>
            /\ e_ret' = EventReturn
       ELSE IF ~Serializable(EventsBody(events))
       THEN /\ e_pc' = "raised"
            /\ e_reqs' = <<>>
            /\ e_warn' = <<>>
            /\ e_ret' = [kind |-> "raise", value |-> "TypeError"]
       ELSE IF conn = 0
       THEN /\ e_pc' = "returned"
            /\ e_reqs' = <<>>
            /\ e_warn' = <<"failed">>
            /\ e_ret' = EventReturn
       ELSE /\ e_pc' = "request"
            /\ e_reqs' = <<EventRequest(EventsBody(events))>>
            /\ e_warn' = <<>>
            /\ e_ret' = NoEventReturn
    /\ UNCHANGED <<e_channel, e_auth, notEvents>>

\* log(source, level, message, details)
log(source, level, message, details) ==
    /\ e_op' = "log"
    /\ SendEvents(
         <<PluginEvent("log", level, plugin_id \o " - " \o source, message, details)>>)

\* emit_event(event_type, data)
emit_event(event_type, data) ==
    /\ e_op' = "emit_event"
    /\ SendEvents(
         <<PluginEvent(event_type, "info", plugin_id, "Event: " \o event_type, data)>>)

\* send_event(event)
send_event(event) ==
    /\ e_op' = "send_event"
    /\ SendEvents(<<event>>)

\* send_multiple_events(events)
send_multiple_events(events) ==
    /\ e_op' = "send_multiple_events"
    /\ SendEvents(events)

\* The awaited request returns resp: its data, when there is any, is decoded
\* and parsed, and a result other than "OK" is printed as a warning.
EventResponds(resp) ==
    /\ e_pc = "request"
    /\ conns[conn] = "open"
    /\ IF resp.data = "empty"
       THEN /\ e_pc' = "returned"
            /\ e_warn' = e_warn
            /\ e_ret' = EventReturn
       ELSE IF ResponseRaises(resp) # None
       THEN EventHandle(ResponseRaises(resp))
       ELSE /\ e_pc' = "returned"
            /\ e_warn' = IF resp.result # "OK" THEN Append(e_warn, "response") ELSE e_warn
            /\ e_ret' = EventReturn
    /\ UNCHANGED <<e_channel, e_auth, e_op, e_reqs, e_calls, notEvents>>

\* The awaited request fails with exc; on a closed connection it can only
\* fail with ConnectionClosedError.
EventFails(exc) ==
    /\ e_pc = "request"
    /\ conns[conn] = "closed" => exc = "ConnectionClosedError"
    /\ EventHandle(exc)
    /\ UNCHANGED <<e_channel, e_auth, e_op, e_reqs, e_calls, notEvents>>

\* No event logger call was made; the Config has no event channel.
EventInit ==
    /\ e_channel = None
    /\ e_auth = None
    /\ e_pc = "idle"
    /\ e_op = None
    /\ e_reqs = <<>>
    /\ e_warn = <<>>
    /\ e_ret = NoEventReturn
    /\ e_calls = 0

\* The Session as its first caller left it: never connected, connected,
\* or connected and then closed.
SessionStates == {"never connected", "connected", "closed"}

SessionIn(state) ==
    /\ conn = IF state = "never connected" THEN 0 ELSE 1
    /\ conns = CASE state = "never connected" -> <<>>
                 [] state = "connected" -> <<"open">>
                 [] state = "closed" -> <<"closed">>
    /\ closed = (state = "closed")
    /\ c_pc = [t \in Callers |-> "idle"]
    /\ c_target = [t \in Callers |-> 0]
    /\ c_ret = [t \in Callers |->
                  IF t # 1 \/ state = "never connected" THEN NoResult
                  ELSE [kind |-> "return", conn |-> IF state = "connected" THEN 1 ELSE 0,
                        error |-> None]]
    /\ n_connects = IF state = "never connected" THEN 0 ELSE 1
    /\ c_log = [t \in Callers |->
                  IF t # 1 THEN <<>>
                  ELSE CASE state = "never connected" -> <<>>
                         [] state = "connected" -> <<"connect">>
                         [] state = "closed" -> <<"connect", "close">>]
    /\ c_tries = [t \in Callers |-> IF t = 1 /\ state # "never connected" THEN 1 ELSE 0]
    /\ n_closes = CASE state = "never connected" -> <<>>
                    [] state = "connected" -> <<0>>
                    [] state = "closed" -> <<1>>

InitEvents ==
    /\ plugin_id \in PluginIds
    /\ ProgressInit
    /\ RegistrarInit
    /\ \E state \in SessionStates : SessionIn(state)
    /\ \E arg \in ChannelArgs, env \in ChannelEnv : e_channel = ConfigOr(arg, env)
    /\ \E arg \in AuthKeys : e_auth = ConfigOr(arg, None)
    /\ e_pc = "idle"
    /\ e_op = None
    /\ e_reqs = <<>>
    /\ e_warn = <<>>
    /\ e_ret = NoEventReturn
    /\ e_calls = 0
    /\ SubjectInit

NextEvents ==
    \/ \E l \in LogLevels, d \in DetailsValues : log("main", l, "m", d)
    \/ \E d \in DetailsValues : emit_event("log", d)
    \/ \E e \in Events : send_event(e)
    \/ \E l \in EventLists : send_multiple_events(l)
    \/ \E resp \in EventResponses : EventResponds(resp)
    \/ \E exc \in RequestErrors : EventFails(exc)

InitSubjects ==
    /\ plugin_id \in SubjectPluginIds
    /\ ProgressInit /\ RegistrarInit /\ SessionInit /\ EventInit /\ SubjectInit

NextSubjects ==
    \/ \E m \in Methods : ExecuteSubject(m)
    \/ \E m \in Methods : FormSubject(m)

vars ==
    <<plugin_id, progressVars, registrarVars, sessionVars, eventVars, subjectVars>>

InitSession ==
    /\ plugin_id \in PluginIds
    /\ ProgressInit /\ RegistrarInit /\ SessionInit /\ EventInit /\ SubjectInit

NextSession ==
    \/ \E t \in Callers : ConnectCall(t)
    \/ \E t \in Callers : ConnectDone(t)
    \/ \E t \in Callers, exc \in ConnectErrors : ConnectFails(t, exc)
    \/ \E t \in Callers : CloseCall(t)
    \/ \E t \in Callers : CloseDone(t)
    \/ \E k \in 1..MaxConnects : TransportCloses(k)

SpecSession == InitSession /\ [][NextSession]_vars

Init ==
    /\ plugin_id \in PluginIds
    /\ ProgressInit /\ RegistrarInit /\ SessionInit /\ EventInit /\ SubjectInit

Next ==
    \/ \E c \in IntroCalls : set_intro(c[1], c[2])
    \/ \E c \in SettingsCalls : set_settings(c[1], c[2])
    \/ \E l \in SetActionsCalls : set_actions(l)
    \/ \E l \in AddActionsCalls : add_actions(l)
    \/ StartCall
    \/ SubscribeOk
    \/ \E exc \in SubscribeErrors : SubscribeFails(exc)
    \/ \E k \in SubIndexes, r \in HandlerOutcomes : Dispatch(k, r)
    \/ DispatchDone

InitProgress ==
    /\ plugin_id \in PluginIds
    /\ ProgressInit /\ RegistrarInit /\ SessionInit /\ EventInit /\ SubjectInit

SpecProgress == InitProgress /\ [][NextProgress]_vars

\* The transport ends every request and every flush, with a response or with
\* an error (both calls carry a timeout), and the event loop wakes the
\* coroutine when asyncio.sleep(1) has elapsed.  Nothing obliges the
\* application to call progress() again.
ProgressFairness ==
    /\ WF_vars((\E data \in ResponseData : RequestResponds(data))
               \/ (\E exc \in RequestErrors : RequestFails(exc)))
    /\ WF_vars(FlushDone \/ (\E exc \in FlushErrors : FlushFails(exc)))
    /\ WF_vars(SleepDone)

SpecProgressLive == InitProgress /\ [][NextProgress]_vars /\ ProgressFairness

SpecEvents == InitEvents /\ [][NextEvents]_vars

SpecSubjects == InitSubjects /\ [][NextSubjects]_vars

Spec == Init /\ [][Next]_vars

(***************************************************************************)
(* Properties of the job progress reporter, checked under SpecProgress.    *)
(***************************************************************************)
Requests == Count(p_trace, "request")

Delays == Count(p_trace, "delay")

AllNoResponders == <<"NoRespondersError", "NoRespondersError", "NoRespondersError">>

\* C1: one progress() call issues at most 3 requests; a request after the
\* first is issued only when the previous one failed with no-responder, and
\* exactly one delay comes right before each retry (so the delays number the
\* requests less one while a request is in flight, and no delay follows the
\* last attempt).  Three no-responder failures give exactly 3 requests and
\* 2 delays, and the call returns the error as its value.
C1_RetryPolicy ==
    /\ Requests <= 3
    /\ \A i \in 1..Len(p_outcomes) :
          i < Requests => p_outcomes[i] = "NoRespondersError"
    /\ \A k \in 2..Len(p_trace) :
          p_trace[k] = "request" =>
              /\ p_trace[k - 1] = "delay"
              /\ k > 2 => p_trace[k - 2] # "delay"
    /\ p_pc \in {"request", "flush", "returned"} => Delays = Requests - 1
    /\ p_pc = "sleep" => Delays = Requests
    /\ (p_pc = "returned" /\ p_outcomes = AllNoResponders) =>
          /\ Requests = 3
          /\ Delays = 2
          /\ p_trace[Len(p_trace)] # "delay"
          /\ p_ret = [kind |-> "return", value |-> "NoRespondersError"]

C1_Witness == p_pc = "returned" /\ p_outcomes = AllNoResponders

\* C2: progress() never raises because of a transport failure: a call that
\* issued a request ends only by returning, and what it returns is the
\* response or the error of the attempt that ended it.
C2_NeverRaises ==
    /\ p_pc = "raised" => (Requests = 0 /\ p_outcomes = <<>>)
    /\ (p_pc = "returned" /\ Requests > 0) =>
          /\ p_ret.kind = "return"
          /\ p_ret.value \in {"msg"} \cup ExceptionClasses
          /\ p_ret.value = "msg" => p_outcomes[Len(p_outcomes)] = "response"
    /\ p_pc \in {"request", "flush", "sleep"} => p_ret = NoReturn

C2_Witness ==
    /\ p_pc = "returned"
    /\ p_ret = [kind |-> "return", value |-> "FlushTimeoutError"]
    /\ p_outcomes = <<"NoRespondersError", "response">>

OtherRequestErrors == RequestErrors \ {"NoRespondersError"}

\* C3: when attempt k fails with a transport error other than no-responder,
\* that error is returned at once: the failed request is the last one, no
\* delay is taken after it, whatever number of no-responder failures came
\* before it.
C3_OtherErrorImmediate ==
    \A k \in 1..Len(p_outcomes) :
        p_outcomes[k] \in OtherRequestErrors =>
            /\ k = Len(p_outcomes)
            /\ Requests = k
            /\ Delays = k - 1
            /\ p_pc = "returned"
            /\ p_ret = [kind |-> "return", value |-> p_outcomes[k]]
            /\ p_trace[Len(p_trace)] = "error"

C3_Witness ==
    /\ p_pc = "returned"
    /\ p_outcomes = <<"NoRespondersError", "NoRespondersError", "ConnectionClosedError">>

\* C4 as claimed: a request timeout is retried like a no-responder failure,
\* so a call that returns a request timeout has made 3 attempts.
C4_TimeoutRetried ==
    (/\ p_pc = "returned"
     /\ p_outcomes # <<>>
     /\ p_outcomes[Len(p_outcomes)] = "TimeoutError") => Requests = 3

\* C4 as amended: a request timeout is not retried.  The attempt that times
\* out is the last of the call, which returns the timeout as a value with no
\* delay after it; the attempts before it all failed with no-responder.
C4_TimeoutNotRetried ==
    \A k \in 1..Len(p_outcomes) :
        p_outcomes[k] = "TimeoutError" =>
            /\ k = Len(p_outcomes)
            /\ p_pc = "returned"
            /\ p_ret = [kind |-> "return", value |-> "TimeoutError"]
            /\ Requests = k
            /\ Delays = k - 1
            /\ \A i \in 1..(k - 1) : p_outcomes[i] = "NoRespondersError"

C4_Witness ==
    /\ p_pc = "returned"
    /\ p_outcomes = <<"TimeoutError">>
    /\ Requests = 1
    /\ Delays = 0

\* The position in the trace of the k-th request of the call.
RequestAt(k) ==
    CHOOSE i \in 1..Len(p_trace) :
        p_trace[i] = "request" /\ Count(SubSeq(p_trace, 1, i), "request") = k

\* The log levels attempt k of the call has logged at, in order: what the
\* trace holds between the k-th request and the next one.
AttemptLogs(k) ==
    LET from == RequestAt(k) + 1
        to == IF k < Requests THEN RequestAt(k + 1) - 1 ELSE Len(p_trace)
    IN SelectSeq(SubSeq(p_trace, from, to),
                 LAMBDA e : e \in {"info", "warning", "error"})

HasWarning(logs) == \E i \in 1..Len(logs) : logs[i] = "warning"

\* C20 as claimed: in a call whose three attempts all failed with
\* no-responder, the first attempt logs no warning, and the second and the
\* third attempt each log a warning.
C20_WarningsOnRetries ==
    (p_pc = "returned" /\ p_outcomes = AllNoResponders) =>
        /\ ~HasWarning(AttemptLogs(1))
        /\ HasWarning(AttemptLogs(2))
        /\ HasWarning(AttemptLogs(3))

\* C20 as amended: in a call whose three attempts all failed with
\* no-responder, the first attempt logs nothing, the second logs one warning,
\* and the third logs no warning but one error, after which the call returns.
C20_WarningThenError ==
    (p_pc = "returned" /\ p_outcomes = AllNoResponders) =>
        /\ AttemptLogs(1) = <<>>
        /\ AttemptLogs(2) = <<"warning">>
        /\ AttemptLogs(3) = <<"error">>

\* A call has returned after three no-responder failures and its third
\* attempt has logged.
C20_Witness ==
    /\ p_pc = "returned"
    /\ p_outcomes = AllNoResponders
    /\ Requests = 3
    /\ AttemptLogs(3) # <<>>

(***************************************************************************)
(* Properties of the plugin registrar, checked under Spec.                 *)
(***************************************************************************)
HandlerRoles == {"requirements", "submit", "cpu"}

\* C5 as claimed: for the requirements-submit, settings-submit and execute
\* roles and for plain and coroutine handlers alike, a reply is sent exactly
\* when the handler's completed result is present (not None), and it carries
\* that result.
C5_ReplyIffResultPresent ==
    (last.role \in HandlerRoles /\ last.handler \in {"sync", "async"}) =>
        last.replies = IF last.result # PyNone
                       THEN <<EncodeResult(last.result)>>
                       ELSE <<>>

\* C6: with no handler, a message on the requirements-submit or on the
\* settings-submit subject is answered exactly once, with the payload
\* {"status":"not implemented"}; a message on an execute subject whose action
\* has no request handler gets no reply, and nothing is raised.
C6_NoHandler ==
    /\ (last.role \in {"requirements", "submit"} /\ last.handler = None) =>
          (last.replies = <<NotImplemented>> /\ last.raised = None)
    /\ (last.role = "cpu" /\ last.handler = None) =>
          (last.replies = <<>> /\ last.raised = None)

C6_Witness ==
    /\ last.role = "cpu"
    /\ last.handler = None
    /\ last.subject = make_action_cpu(plugin_id, "scan.gen.graph")
    /\ last.replies = <<>>

AttemptedRoles == {s_attempted[k].role : k \in 1..Len(s_attempted)}

\* C7 as claimed: the binds of start() are independent, so when start() has
\* failed because a bind failed, the settings bind and the actions bind have
\* been attempted all the same.
C7_BindsIndependent ==
    s_pc = "raised" => {"settings", "list"} \subseteq AttemptedRoles

\* The number of subscribe calls of the current start() made for sub.
Bound(sub) == Count(s_attempted, sub)

\* The subscribe calls of a start() that has returned are the last
\* subscriptions bound.
BoundByStart ==
    /\ Len(s_attempted) <= Len(subs)
    /\ SubSeq(subs, Len(subs) - Len(s_attempted) + 1, Len(subs)) = s_attempted

ActionRolesBound(acts) ==
    \A i \in 1..Len(acts) :
        /\ Bound(Sub(make_form_subject(plugin_id, acts[i].method), "form", acts[i]))
              = Count(acts, acts[i])
        /\ Bound(Sub(make_action_cpu(plugin_id, acts[i].method), "cpu", acts[i]))
              = Count(acts, acts[i])

\* C8 as claimed: after start() has returned without error, for any
\* declarations made before it, none included, one subscription is bound on
\* the intro subject, the settings subject, the actions-list subject, and on
\* the form and the execute subject of every registered action.
C8_AllRolesBound ==
    (s_pc = "returned" /\ ~s_dirty) =>
        /\ BoundByStart
        /\ Bound(Sub(make_intro_subject(plugin_id), "intro", NoAction)) = 1
        /\ Bound(Sub(make_settings_subject(plugin_id), "settings", NoAction)) = 1
        /\ Bound(Sub(make_actions_list_subject(plugin_id), "list", NoAction)) = 1
        /\ ActionRolesBound(s_decl[3])

\* C8 as amended: after start() has returned without error, for the
\* declarations made before it, the call has bound one subscription on the
\* settings subject, one on the actions-list subject, and one on the form and
\* one on the execute subject for every registered action; it has bound one
\* on the intro subject when an intro was declared, and none when no intro
\* was declared.
C8_RolesBound ==
    (s_pc = "returned" /\ ~s_dirty) =>
        /\ BoundByStart
        /\ Bound(Sub(make_intro_subject(plugin_id), "intro", NoAction))
              = (IF s_decl[1].present THEN 1 ELSE 0)
        /\ Bound(Sub(make_settings_subject(plugin_id), "settings", NoAction)) = 1
        /\ Bound(Sub(make_actions_list_subject(plugin_id), "list", NoAction)) = 1
        /\ ActionRolesBound(s_decl[3])

C8_Witness ==
    /\ s_pc = "returned"
    /\ ~s_dirty
    /\ ~s_decl[1].present
    /\ Len(s_decl[3]) = 2
    /\ Len(subs) = 6

\* C9 as claimed: once start() has returned, the declarations are those held
\* when it returned, and the intro, settings and actions-list replies served
\* from then on are built from them.
C9_DeclarationsFixed ==
    s_pc = "returned" =>
        /\ Declarations = s_decl
        /\ (last.running /\ last.role = "intro") => last.replies = <<IntroJson(s_decl[1])>>
        /\ (last.running /\ last.role = "settings") =>
              last.replies = <<SettingsJson(s_decl[2])>>
        /\ (last.running /\ last.role = "list") => last.replies = <<ListJson(s_decl[3])>>

\* The receiving side: a JSON text, given as its tokens, is parsed into a
\* string [t |-> "str"], an object [t |-> "object", v |-> members in order]
\* or an array [t |-> "array", v |-> items in order].
RECURSIVE ParseValue(_, _), ParseMembers(_, _, _), ParseItems(_, _, _)
ParseValue(toks, i) ==
    IF toks[i] = "{"
    THEN (IF toks[i + 1] = "}"
          THEN [val |-> [t |-> "object", v |-> <<>>], next |-> i + 2]
          ELSE ParseMembers(toks, i + 1, <<>>))
    ELSE IF toks[i] = "["
    THEN (IF toks[i + 1] = "]"
          THEN [val |-> [t |-> "array", v |-> <<>>], next |-> i + 2]
          ELSE ParseItems(toks, i + 1, <<>>))
    ELSE [val |-> [t |-> "str", v |-> <<toks[i]>>], next |-> i + 1]

ParseMembers(toks, i, acc) ==
    LET m == ParseValue(toks, i + 2)
        all == Append(acc, [key |-> toks[i], val |-> m.val])
    IN IF toks[m.next] = ","
       THEN ParseMembers(toks, m.next + 1, all)
       ELSE [val |-> [t |-> "object", v |-> all], next |-> m.next + 1]

ParseItems(toks, i, acc) ==
    LET m == ParseValue(toks, i)
        all == Append(acc, m.val)
    IN IF toks[m.next] = ","
       THEN ParseItems(toks, m.next + 1, all)
       ELSE [val |-> [t |-> "array", v |-> all], next |-> m.next + 1]

JsonLoads(toks) == ParseValue(toks, 1).val

Keys(obj) == {obj.v[k].key : k \in 1..Len(obj.v)}

\* The value of `key` in a parsed object that has it once.
Member(obj, key) == obj.v[CHOOSE k \in 1..Len(obj.v) : obj.v[k].key = key].val

\* The entry {method, title, description, icon: {ref, icon}} a parsed item
\* of the list reply stands for.
DecodedEntry(obj) ==
    [method |-> Member(obj, "method").v[1],
     title |-> Member(obj, "title").v[1],
     description |-> Member(obj, "description").v[1],
     icon |-> [ref |-> Member(Member(obj, "icon"), "ref").v[1],
               icon |-> Member(Member(obj, "icon"), "icon").v[1]]]

\* An item of the list reply is an object of exactly the four keys, with an
\* icon of exactly two.
WellFormedEntry(obj) ==
    /\ obj.t = "object"
    /\ Len(obj.v) = 4
    /\ Keys(obj) = {"method", "title", "description", "icon"}
    /\ Member(obj, "icon").t = "object"
    /\ Len(Member(obj, "icon").v) = 2
    /\ Keys(Member(obj, "icon")) = {"ref", "icon"}

\* The actions registered by `calls`, in registration order: the list of
\* the last set_actions, followed by the lists added after it.
RECURSIVE Registered(_)
Registered(calls) ==
    IF calls = <<>> THEN <<>>
    ELSE LET c == calls[Len(calls)] IN
         IF c.op = "set" THEN c.acts
         ELSE Registered(SubSeq(calls, 1, Len(calls) - 1)) \o c.acts

EntryOf(a) ==
    [method |-> a.method, title |-> a.title, description |-> a.description,
     icon |-> [ref |-> a.icon.ref, icon |-> a.icon.icon]]

DeclaredBeforeStart == \A k \in 1..Len(a_log) : a_log[k].before_start

\* C17: when all the calls of set_actions and add_actions were made before
\* start(), a request on the actions-list subject gets one reply, which
\* parses to an array with one well-formed entry per registered action, as
\* many as were registered and in registration order.
C17_ListReply ==
    (last.role = "list" /\ DeclaredBeforeStart) =>
        /\ Len(last.replies) = 1
        /\ LET reply == JsonLoads(last.replies[1])
               reg == Registered(a_log)
           IN /\ reply.t = "array"
              /\ Len(reply.v) = Len(reg)
              /\ \A k \in 1..Len(reg) :
                    /\ WellFormedEntry(reply.v[k])
                    /\ DecodedEntry(reply.v[k]) = EntryOf(reg[k])

\* set_actions, then add_actions, then start(): the list reply has two
\* entries.
C17_Witness ==
    /\ last.role = "list"
    /\ DeclaredBeforeStart
    /\ Len(a_log) = 2
    /\ a_log[1].op = "set"
    /\ a_log[2].op = "add"
    /\ Len(Registered(a_log)) = 2
    /\ Len(JsonLoads(last.replies[1]).v) = 2

\* Settings built with an empty reply_to, or with none.
EmptyOrUnset(st) == st.present /\ st.reply_to \in {"", ReplyToUnset}

\* C18: Settings with an empty reply_to and Settings built without reply_to
\* resolve to one value, the reply_to of Settings built without one: the
\* settings reply advertises it as replyTo, and a start() that returned has
\* bound its one settings-submit subscription on the subject made from it.
C18_SameDefault ==
    /\ (last.role = "settings" /\ EmptyOrUnset(settings)) =>
          /\ Len(last.replies) = 1
          /\ Member(JsonLoads(last.replies[1]), "replyTo").v = <<ReplyToUnset>>
    /\ (s_pc = "returned" /\ ~s_dirty /\ EmptyOrUnset(s_decl[2])) =>
          /\ Bound(Sub(make_subject(plugin_id, ReplyToUnset), "submit", NoAction)) = 1
          /\ \A k \in 1..Len(s_attempted) :
                s_attempted[k].role = "submit" =>
                    s_attempted[k].subject = make_subject(plugin_id, ReplyToUnset)

\* Settings with an empty reply_to were declared, start() returned, and a
\* request on the settings subject was answered.
C18_Witness ==
    /\ s_pc = "returned"
    /\ ~s_dirty
    /\ settings = s_decl[2]
    /\ settings.present
    /\ settings.reply_to = ""
    /\ last.role = "settings"
    /\ Bound(Sub(make_subject(plugin_id, ReplyToUnset), "submit", NoAction)) = 1

\* C19 as claimed: a request on the settings subject gets exactly one
\* reply: the literal null when no Settings is registered, else an object
\* whose keys are replyTo, jsonui and jsonschema, and data exactly when the
\* Settings were given a data blob (data is not None).
C19_SettingsReply ==
    last.role = "settings" =>
        /\ Len(last.replies) = 1
        /\ IF ~settings.present
           THEN last.replies[1] = <<"null">>
           ELSE LET reply == JsonLoads(last.replies[1]) IN
                /\ reply.t = "object"
                /\ Keys(reply) = {"replyTo", "jsonui", "jsonschema"}
                        \cup (IF settings.data # None THEN {"data"} ELSE {})
                /\ Len(reply.v) = Cardinality(Keys(reply))

(***************************************************************************)
(* Properties of the transport session, checked under SpecSession.         *)
(***************************************************************************)
Live == {k \in 1..Len(conns) : conns[k] = "open"}

\* C10 as claimed: in every reachable state, also with several connect()
\* calls suspended in the transport connect at once, the Session has at most
\* one live (opened and not yet closed) transport connection.
C10_AtMostOneLive == Cardinality(Live) <= 1

\* The Session holds a connection that is open.
Connected == conn # 0 /\ conns[conn] = "open"

\* Caller t makes a call of op in this step.
Called(t, op) == c_log'[t] = Append(c_log[t], op)

\* The last call t made, None when it made none.
LastCall(t) == IF c_log[t] = <<>> THEN None ELSE c_log[t][Len(c_log[t])]

\* t is the only caller that has called connect() or close() so far: its
\* calls follow one another.
Solo(t) == \A u \in Callers \ {t} : c_log[u] = <<>>

\* C11 as claimed: once a close() has completed, the Session is never
\* connected again, whatever is called afterwards (a later connect() in
\* particular).  Stated for calls that follow one another (one caller), where
\* _closed set means that a close() of that caller has completed.
C11_ClosedIsFinal == \A t \in Callers : Solo(t) /\ closed => ~Connected

\* C12: a connect() called while the Session is connected returns at once:
\* it makes no nats.connect call, leaves self.conn and the connections as
\* they are, and returns the connection the Session already held.
C12_ConnectIdempotent ==
    [][\A t \in Callers :
          Called(t, "connect") /\ Connected =>
              /\ n_connects' = n_connects
              /\ c_tries'[t] = 0
              /\ conn' = conn
              /\ conns' = conns
              /\ c_pc'[t] = "idle"
              /\ c_ret'[t] = [kind |-> "return", conn |-> conn, error |-> None]]_vars

\* A caller connected, and its next connect() returned with no nats.connect
\* call of its own.
C12_Witness ==
    \E t \in Callers :
        /\ Solo(t)
        /\ c_log[t] = <<"connect", "connect">>
        /\ c_pc[t] = "idle"
        /\ c_tries[t] = 0
        /\ n_connects = 1
        /\ c_ret[t] = [kind |-> "return", conn |-> 1, error |-> None]

\* C13: when the calls of close() follow one another (one caller), each
\* close() returns without raising and leaves the Session closed and not
\* connected, whether it was never connected, connected or already closed;
\* and close() is called at most once on every transport connection.
C13_CloseIdempotent ==
    \A t \in Callers :
        Solo(t) =>
            /\ \A k \in 1..Len(n_closes) : n_closes[k] <= 1
            /\ (c_pc[t] = "idle" /\ LastCall(t) = "close") =>
                   /\ c_ret[t] = [kind |-> "return", conn |-> 0, error |-> None]
                   /\ closed
                   /\ ~Connected

\* connect(), close(), close() by one caller: the second close() returned and
\* the connection was closed once.
C13_Witness ==
    /\ Solo(1)
    /\ c_log[1] = <<"connect", "close", "close">>
    /\ c_pc[1] = "idle"
    /\ n_closes = <<1>>
    /\ conns = <<"closed">>
    /\ closed

\* C14: when the awaited nats.connect fails or times out, connect() raises
\* ConnectionError after the one nats.connect call it made, does not call
\* it again, and leaves self.conn and the connections as they were; when
\* the calls follow one another, the Session still needs a connection, so
\* that the next connect() calls nats.connect again.
C14_ConnectFailure ==
    [][\A t \in Callers :
          c_pc[t] = "connecting" /\ c_ret'[t].kind = "raise" =>
              /\ c_ret'[t].error = "ConnectionError"
              /\ c_tries'[t] = 1
              /\ n_connects' = n_connects
              /\ c_pc'[t] = "idle"
              /\ conn' = conn
              /\ conns' = conns
              /\ (Solo(t) => NeedsConnect')]_vars

\* One caller: its first connect() failed, its second connect() called
\* nats.connect again and got the first connection of the Session.
C14_Witness ==
    \E t \in Callers :
        /\ Solo(t)
        /\ c_log[t] = <<"connect", "connect">>
        /\ n_connects = 2
        /\ conns = <<"open">>
        /\ c_tries[t] = 1
        /\ c_ret[t] = [kind |-> "return", conn |-> 1, error |-> None]

(***************************************************************************)
(* Properties of the event logger, checked under SpecEvents.               *)
(***************************************************************************)
\* C15: with an event channel configured, whatever the awaited event request
\* does (it times out, finds no responder, fails otherwise, or returns a
\* response with a result other than OK or with a body that is not JSON or
\* not an object), the call of log, emit_event, send_event or
\* send_multiple_events returns normally, having issued that one request
\* and no other.
C15_EventFailuresContained ==
    [][(e_pc = "request" /\ e_channel \notin {None, ""}) =>
          /\ e_pc' = "returned"
          /\ e_ret' = EventReturn
          /\ Len(e_reqs) = 1
          /\ e_reqs' = e_reqs]_vars

\* A send_multiple_events call whose one request failed, or whose response
\* could not be read, returned after printing the failure.
C15_Witness ==
    /\ e_op = "send_multiple_events"
    /\ e_channel = "events"
    /\ e_pc = "returned"
    /\ e_ret = EventReturn
    /\ Len(e_reqs) = 1
    /\ e_warn = <<"failed">>

\* C16: when the Config has no event channel (None or empty), a call of log,
\* emit_event, send_event or send_multiple_events issues no request, prints
\* no failure and returns without raising, whether the Session was never
\* connected, is connected or is closed.
C16_NoChannelNoTransport ==
    e_channel \in {None, ""} =>
        /\ e_reqs = <<>>
        /\ e_warn = <<>>
        /\ e_pc \in {"idle", "returned"}
        /\ e_ret.kind # "raise"

\* log() returned on a Session that was never connected and has an empty
\* event channel.
C16_Witness ==
    /\ e_channel = ""
    /\ conn = 0
    /\ e_op = "log"
    /\ e_pc = "returned"
    /\ e_reqs = <<>>

(***************************************************************************)
(* Termination of progress(), checked under SpecProgressLive.              *)
(***************************************************************************)
\* progress() is suspended in one of its awaits.
InProgress == p_pc \in {"request", "flush", "sleep"}

\* C27: when every request and flush ends and every delay elapses, a call of
\* progress() that is suspended in an await eventually ends, by returning or
\* by raising, whatever the outcomes of its attempts are.
C27_ProgressReturns == InProgress ~> (p_pc \in {"returned", "raised"})

\* A call has ended at its third attempt, after two retries.
C27_Witness ==
    /\ p_pc = "returned"
    /\ p_outcomes = <<"NoRespondersError", "NoRespondersError", "TimeoutError">>
    /\ p_ret = [kind |-> "return", value |-> "TimeoutError"]

(***************************************************************************)
(* Properties of the per-action subscriptions, checked under Spec.         *)
(***************************************************************************)
DistinctMethods(acts) ==
    \A i \in 1..Len(acts), j \in 1..Len(acts) :
        acts[i].method = acts[j].method => i = j

\* The subscriptions bound on a subject.
BoundOn(subject) == {k \in 1..Len(subs) : subs[k].subject = subject}

\* C22: with actions of pairwise distinct methods, all registered before a
\* single start(), the one callback bound on the execute subject of a method
\* calls the request handler of the action of that method, once, and the one
\* callback bound on its form subject replies with the form of that action,
\* {} when it has none; for every position of the action in the list.
C22_ActionOfMethod ==
    (/\ last.role \in {"cpu", "form"}
     /\ s_starts = 1
     /\ DeclaredBeforeStart
     /\ DistinctMethods(actions)) =>
        \E i \in 1..Len(actions) :
            /\ last.act = actions[i]
            /\ Cardinality(BoundOn(last.subject)) = 1
            /\ last.role = "cpu" =>
                /\ last.subject = make_action_cpu(plugin_id, actions[i].method)
                /\ last.handler = actions[i].request_handler
                /\ last.calls = IF actions[i].request_handler = None THEN 0 ELSE 1
            /\ last.role = "form" =>
                /\ last.subject = make_form_subject(plugin_id, actions[i].method)
                /\ last.replies =
                     << IF actions[i].form.present
                        THEN JsonObject(<< <<"jsonui", JsonString(actions[i].form.jsonui)>>,
                                           <<"jsonschema",
                                             JsonString(actions[i].form.jsonschema)>> >>)
                        ELSE JsonObject(<<>>) >>

\* The execute callback of the first of two actions has called its handler.
C22_Witness ==
    /\ last.role = "cpu"
    /\ s_starts = 1
    /\ DeclaredBeforeStart
    /\ DistinctMethods(actions)
    /\ Len(actions) = 2
    /\ last.act = actions[1]
    /\ last.subject = make_action_cpu(plugin_id, actions[1].method)
    /\ last.calls = 1

\* C23: whenever the callback of the actions-list subject answers a request,
\* start() still suspended in a subscribe call included, every action of the
\* reply has a subscription bound on its form subject and one on its execute
\* subject.
C23_AdvertisedAreBound ==
    (last.role = "list" /\ DeclaredBeforeStart) =>
        \A i \in 1..Len(actions) :
            /\ BoundOn(make_form_subject(plugin_id, actions[i].method)) # {}
            /\ BoundOn(make_action_cpu(plugin_id, actions[i].method)) # {}

\* C24: whatever registrar operations were called, no subject has more than
\* one subscription bound on it, so that a request on a subject has one
\* callback to answer it.
C24_OneSubscriptionPerSubject ==
    \A k \in 1..Len(subs) : Cardinality(BoundOn(subs[k].subject)) = 1

\* The execute callback ran a handler that completed with a value that is
\* not None and is false in a boolean test.
FalsyResult ==
    /\ last.role = "cpu"
    /\ last.handler \in {"sync", "async"}
    /\ last.raised = None
    /\ last.result # PyNone
    /\ ~Truthy(last.result)

\* C25 as claimed: on the execute subject, a handler of either kind whose
\* result is empty or falsy and not None gets no reply sent.
C25_FalsyNoReply == FalsyResult => last.replies = <<>>

\* C25: on the execute subject, a synchronous handler whose result is falsy
\* and not None gets no reply sent; an asynchronous handler with such a
\* result gets the encoded result sent as the one reply.
C25_FalsyNoReplyWhenSync ==
    FalsyResult =>
        last.replies = IF last.handler = "sync" THEN <<>>
                       ELSE <<EncodeResult(last.result)>>

\* An asynchronous handler completed with the empty mapping and {} was sent.
C25_Witness ==
    /\ FalsyResult
    /\ last.handler = "async"
    /\ last.result = EmptyDict
    /\ last.replies = <<JsonObject(<<>>)>>

\* C26: when the handler of a requirements-submit, settings-submit or
\* execute callback raises, the exception leaves the callback, no reply is
\* sent for the message, and the handler was called once for it.
C26_HandlerErrorPropagates ==
    (/\ last.role \in HandlerRoles
     /\ last.handler \in {"sync", "async"}
     /\ last.outcome = HandlerRaises) =>
        /\ last.raised = HandlerRaises.s
        /\ last.replies = <<>>
        /\ last.calls = 1

\* The asynchronous handler of a settings submit raised.
C26_Witness ==
    /\ last.role = "submit"
    /\ last.handler = "async"
    /\ last.outcome = HandlerRaises
    /\ last.raised = "ValueError"
    /\ last.replies = <<>>

(***************************************************************************)
(* Properties of the subject registry, checked under SpecSubjects.         *)
(***************************************************************************)
\* The calls agree on equal methods and differ on different methods.
Injective(calls) ==
    \A i \in 1..Len(calls), j \in 1..Len(calls) :
        (calls[i].method = calls[j].method) <=> (calls[i].subject = calls[j].subject)

\* C21: for the plugin id of the registry, make_action_cpu and
\* make_form_subject return the same subject whenever they are called with
\* the same method, and different subjects for different methods, methods
\* with dots included.
C21_SubjectsInjective == Injective(q_exec) /\ Injective(q_form)

\* Both mappings were called with two different methods with dots, one a
\* prefix of the other.
C21_Witness ==
    /\ Len(q_exec) = 2
    /\ q_exec[1].method = "scan.gen"
    /\ q_exec[2].method = "scan.gen.graph"
    /\ Len(q_form) = 2
    /\ q_form[1].method = "prepare"
    /\ q_form[2].method = "prepare.@form"

====
